---- MODULE Spec2Model ----
(***************************************************************************)
(* A model of the automapper package (automapper.go, the MapToDestination  *)
(* / MapFromSource / MapFromSourceMap revision, lines 446-659).            *)
(*                                                                         *)
(* The package walks two values through Go's reflect package.  A type is a *)
(* record [kind, name, fields, elem]; two types are identical exactly when *)
(* the records are equal, which is Go's type identity for the modelled     *)
(* kinds (a struct type's identity includes its field names, types, tags   *)
(* and embeddedness; a defined type's identity is its name).  A value is a *)
(* record [i, s, f]: i the integer of an int / the non-nil flag of a       *)
(* pointer or slice, s the bytes of a string, f the fields of a struct /   *)
(* the elements of a slice / the pointee of a pointer.  Only exported      *)
(* fields are modelled.  A pointer is modelled by the value it points to.  *)
(***************************************************************************)
EXTENDS Integers, Sequences, FiniteSets, TLC

(***************************************************************************)
(* Bounds of the explored inputs.                                          *)
(***************************************************************************)
MaxSliceLen == 2
MaxMapKeys == 2

----------------------------------------------------------------------------
(* reflect.Type *)

NoTypes == <<>>

InvalidT == [kind |-> "invalid", name |-> "", fields |-> <<>>, elem |-> NoTypes]
IntT == [kind |-> "int", name |-> "int", fields |-> <<>>, elem |-> NoTypes]
Uint8T == [kind |-> "uint8", name |-> "uint8", fields |-> <<>>, elem |-> NoTypes]
StringT == [kind |-> "string", name |-> "string", fields |-> <<>>, elem |-> NoTypes]

PtrTo(t) == [kind |-> "ptr", name |-> "", fields |-> <<>>, elem |-> <<t>>]
SliceOf(t) == [kind |-> "slice", name |-> "", fields |-> <<>>, elem |-> <<t>>]
StructOf(n, fs) == [kind |-> "struct", name |-> n, fields |-> fs, elem |-> NoTypes]
Elem(t) == t.elem[1]

\* A struct field: plain, with an `automapper:"..."` tag, or embedded.
Fld(n, t) == [name |-> n, type |-> t, anon |-> FALSE, hasTag |-> FALSE, tag |-> ""]
Tagged(n, t, g) == [name |-> n, type |-> t, anon |-> FALSE, hasTag |-> TRUE, tag |-> g]
Embed(t) == [name |-> IF t.kind = "ptr" THEN Elem(t).name ELSE t.name,
             type |-> t, anon |-> TRUE, hasTag |-> FALSE, tag |-> ""]

----------------------------------------------------------------------------
(* reflect.Value *)

IntV(n) == [i |-> n, s |-> <<>>, f |-> <<>>]
StrV(b) == [i |-> 0, s |-> b, f |-> <<>>]
StructV(fs) == [i |-> 0, s |-> <<>>, f |-> fs]
NilV == [i |-> 0, s |-> <<>>, f |-> <<>>]
PtrV(v) == [i |-> 1, s |-> <<>>, f |-> <<v>>]
SliceV(es) == [i |-> 1, s |-> <<>>, f |-> es]

IsNil(v) == v.i = 0

RECURSIVE Zero(_)
Zero(t) ==
    IF t.kind = "struct"
    THEN StructV([k \in 1..Len(t.fields) |-> Zero(t.fields[k].type)])
    ELSE NilV

----------------------------------------------------------------------------
(* The parts of package reflect the mapper calls.  A looked-up value is a  *)
(* reference [st, t, v, path]: st is "ok", "invalid" (the zero             *)
(* reflect.Value) or "panic"; path is the field index path from the value  *)
(* the lookup started at.                                                  *)

Ref(t, v, p) == [st |-> "ok", t |-> t, v |-> v, path |-> p]
InvalidRef == [st |-> "invalid", t |-> InvalidT, v |-> NilV, path |-> <<>>]
PanicRef == [st |-> "panic", t |-> InvalidT, v |-> NilV, path |-> <<>>]

\* The struct type an embedded field promotes the fields of, if any.
Promoted(fld) ==
    IF ~fld.anon THEN InvalidT
    ELSE IF fld.type.kind = "ptr" THEN Elem(fld.type)
    ELSE fld.type

\* reflect.Type.FieldByName: breadth-first over embedded structs; the name
\* is found at the shallowest depth that has it, and only if it occurs once
\* at that depth.  scans is the set of [typ, index] pairs of one depth.
RECURSIVE SearchLevel(_, _)
SearchLevel(scans, name) ==
    LET matches == UNION {{Append(sc.index, k) : k \in
                              {j \in 1..Len(sc.typ.fields) : sc.typ.fields[j].name = name}}
                          : sc \in scans}
        next == UNION {{[typ |-> Promoted(sc.typ.fields[k]), index |-> Append(sc.index, k)] : k \in
                           {j \in 1..Len(sc.typ.fields) :
                               /\ sc.typ.fields[j].name # name
                               /\ Promoted(sc.typ.fields[j]).kind = "struct"}}
                       : sc \in scans}
    IN  IF matches # {}
        THEN IF Cardinality(matches) = 1
             THEN [ok |-> TRUE, index |-> CHOOSE m \in matches : TRUE]
             ELSE [ok |-> FALSE, index |-> <<>>]
        ELSE IF next = {} THEN [ok |-> FALSE, index |-> <<>>]
        ELSE SearchLevel(next, name)

TypeFieldByName(t, name) ==
    SearchLevel({[typ |-> t, index |-> <<>>]}, name)

\* reflect.Value.FieldByIndex: from the second index on, a pointer to a
\* struct is followed, and a nil one panics.
RECURSIVE FieldByIndexFrom(_, _, _, _)
FieldByIndexFrom(t, v, index, k) ==
    IF k > Len(index) THEN Ref(t, v, index)
    ELSE IF k > 1 /\ t.kind = "ptr" /\ Elem(t).kind = "struct"
    THEN IF IsNil(v) THEN PanicRef
         ELSE FieldByIndexFrom(Elem(t), v.f[1], index, k)
    ELSE FieldByIndexFrom(t.fields[index[k]].type, v.f[index[k]], index, k + 1)

FieldByIndex(t, v, index) == FieldByIndexFrom(t, v, index, 1)

\* reflect.Value.FieldByName: panics unless v is a struct; the zero Value
\* when the type has no such field.
FieldByName(t, v, name) ==
    IF t.kind # "struct" THEN PanicRef
    ELSE LET f == TypeFieldByName(t, name)
         IN  IF f.ok THEN FieldByIndex(t, v, f.index) ELSE InvalidRef

\* Assignment through a reference obtained by FieldByIndex: the value at
\* path is replaced, following the embedded pointers on the way.
RECURSIVE SetAt(_, _, _, _)
SetAt(t, v, path, nv) ==
    IF path = <<>> THEN nv
    ELSE IF t.kind = "ptr"
    THEN [v EXCEPT !.f = <<SetAt(Elem(t), v.f[1], path, nv)>>]
    ELSE [v EXCEPT !.f[Head(path)] =
              SetAt(t.fields[Head(path)].type, v.f[Head(path)], Tail(path), nv)]

\* string(rune(n)): the UTF-8 encoding of n, of U+FFFD for an invalid rune.
EncodeRune(n) ==
    IF n < 0 \/ n > 1114111 \/ (n >= 55296 /\ n <= 57343) THEN <<239, 191, 189>>
    ELSE IF n < 128 THEN <<n>>
    ELSE IF n < 2048 THEN <<192 + (n \div 64), 128 + (n % 64)>>
    ELSE IF n < 65536
    THEN <<224 + (n \div 4096), 128 + ((n \div 64) % 64), 128 + (n % 64)>>
    ELSE <<240 + (n \div 262144), 128 + ((n \div 4096) % 64),
           128 + ((n \div 64) % 64), 128 + (n % 64)>>

\* reflect.Value.Convert for the conversions mapValues can ask for (its
\* destination is then neither a pointer nor a slice, and not a struct when
\* the source is one): [ok, val], ok FALSE where Convert panics.
Convert(sT, sV, dT) ==
    IF sT.kind \in {"int", "uint8"} /\ dT.kind = "int"
    THEN [ok |-> TRUE, val |-> IntV(sV.i)]
    ELSE IF sT.kind \in {"int", "uint8"} /\ dT.kind = "uint8"
    THEN [ok |-> TRUE, val |-> IntV(sV.i % 256)]
    ELSE IF sT.kind \in {"int", "uint8"} /\ dT.kind = "string"
    THEN [ok |-> TRUE, val |-> StrV(EncodeRune(sV.i))]
    ELSE IF sT.kind = "string" /\ dT.kind = "string"
    THEN [ok |-> TRUE, val |-> StrV(sV.s)]
    ELSE IF /\ sT.kind = "slice" /\ Elem(sT) = Uint8T /\ dT.kind = "string"
    THEN [ok |-> TRUE, val |-> StrV([k \in 1..Len(sV.f) |-> sV.f[k].i])]
    ELSE [ok |-> FALSE, val |-> NilV]

----------------------------------------------------------------------------
(* The mapper.  Every operator returns [ok, val, trav, n]: ok is FALSE     *)
(* when the call panics, val is the destination value as the call leaves   *)
(* it (on a panic: as mutated so far), and trav / n continue the           *)
(* accumulator acc they are given: trav the set of (source type,           *)
(* destination type) pairs mapFields was entered with, n the number of     *)
(* mapValues calls.                                                        *)

Done(v, acc) == [ok |-> TRUE, val |-> v, trav |-> acc.trav, n |-> acc.n]
Panic(v, acc) == [ok |-> FALSE, val |-> v, trav |-> acc.trav, n |-> acc.n]
AccOf(r) == [trav |-> r.trav, n |-> r.n]
NoAcc == [trav |-> {}, n |-> 0]

mapOptions(b) == [useSourceMemberList |-> b]

valueIsNil(t, v) == t.kind = "ptr" /\ IsNil(v)

\* [panic, nil]: panic when FieldByIndex does, else nil is the result.
valueIsContainedInNilEmbeddedType(sT, sV, fieldName) ==
    LET ix == TypeFieldByName(sT, fieldName).index
    IN  IF Len(ix) > 1
        THEN LET parentField == FieldByIndex(sT, sV, SubSeq(ix, 1, Len(ix) - 1))
             IN  IF parentField.st = "panic" THEN [panic |-> TRUE, nil |-> FALSE]
                 ELSE [panic |-> FALSE, nil |-> valueIsNil(parentField.t, parentField.v)]
        ELSE [panic |-> FALSE, nil |-> FALSE]

\* (mutant) the search goes on into the struct-kinded fields of a field
\* that does not have the name, to any depth.
RECURSIVE searchNestedDeep(_, _, _, _)
searchNestedDeep(sT, sV, name, i) ==
    IF i > Len(sT.fields) THEN InvalidRef
    ELSE IF sT.fields[i].type.kind # "struct" THEN searchNestedDeep(sT, sV, name, i + 1)
    ELSE IF FieldByName(sT.fields[i].type, sV.f[i], name).st # "invalid"
    THEN FieldByName(sT.fields[i].type, sV.f[i], name)
    ELSE IF searchNestedDeep(sT.fields[i].type, sV.f[i], name, 1).st # "invalid"
    THEN searchNestedDeep(sT.fields[i].type, sV.f[i], name, 1)
    ELSE searchNestedDeep(sT, sV, name, i + 1)

\* The loop of mapByFieldName over the struct-kinded fields of source, from
\* field i on: the first one that has a field called name.
RECURSIVE searchNested(_, _, _, _)
searchNested(sT, sV, name, i) ==
    IF i > Len(sT.fields) THEN InvalidRef
    ELSE IF sT.fields[i].type.kind # "struct" THEN searchNested(sT, sV, name, i + 1)
    ELSE LET r == FieldByName(sT.fields[i].type, sV.f[i], name)
         IN  IF r.st = "invalid" THEN searchNested(sT, sV, name, i + 1) ELSE r

RECURSIVE mapValues(_, _, _, _, _, _)
RECURSIVE mapSliceFrom(_, _, _, _, _, _)
RECURSIVE mapSlice(_, _, _, _, _, _)
RECURSIVE verifyArrayTypesAreCompatible(_, _, _, _, _, _)
RECURSIVE mapFieldsFrom(_, _, _, _, _, _)
RECURSIVE mapFields(_, _, _, _, _, _)
RECURSIVE mapDestField(_, _, _, _, _, _, _)
RECURSIVE mapSourceField(_, _, _, _, _, _, _)
RECURSIVE mapByFieldName(_, _, _, _, _, _, _, _)

\* val := reflect.New(destType.Elem()); mapValues(sourceVal, val.Elem());
\* destVal.Set(val), r the outcome of the inner mapValues.
SetNew(dV, r) ==
    IF r.ok THEN Done(PtrV(r.val), AccOf(r)) ELSE Panic(dV, AccOf(r))

\* destVal.Set(sourceVal.Convert(destType)), c the outcome of Convert.
SetConverted(dV, c, acc) ==
    IF c.ok THEN Done(c.val, acc) ELSE Panic(dV, acc)

mapValues(sT, sV, dT, dV, opts, acc) ==
    IF sT.kind = "invalid" \/ dT.kind = "invalid" THEN Panic(dV, [acc EXCEPT !.n = @ + 1])
    ELSE IF dT.kind = "struct" /\ sT.kind = "ptr"
    THEN mapValues(Elem(sT), IF IsNil(sV) THEN Zero(Elem(sT)) ELSE sV.f[1],
                   dT, dV, opts, [acc EXCEPT !.n = @ + 1])
    ELSE IF dT = sT THEN Done(sV, [acc EXCEPT !.n = @ + 1])
    ELSE IF dT.kind = "struct" /\ sT.kind = "struct"
    THEN mapFields(sT, sV, dT, dV, opts, [acc EXCEPT !.n = @ + 1])
    ELSE IF dT.kind = "ptr"
    THEN IF valueIsNil(sT, sV) THEN Done(dV, [acc EXCEPT !.n = @ + 1])
         ELSE SetNew(dV, mapValues(sT, sV, Elem(dT), Zero(Elem(dT)), opts,
                                   [acc EXCEPT !.n = @ + 1]))
    ELSE IF dT.kind = "slice" THEN mapSlice(sT, sV, dT, dV, opts, [acc EXCEPT !.n = @ + 1])
    ELSE SetConverted(dV, Convert(sT, sV, dT), [acc EXCEPT !.n = @ + 1])

\* sourceVal.Len()
SliceLen(sT, sV) == IF sT.kind = "string" THEN Len(sV.s) ELSE Len(sV.f)

\* (mutant) the mapped element is put in front of the elements before it.
SetIndexFront(r, e) ==
    IF e.ok THEN Done(SliceV(<<e.val>> \o r.val.f), AccOf(e)) ELSE e

\* target.Index(j) of the loop of mapSlice: e the outcome of mapping the
\* element, r the outcome of the elements before it (val the target slice).
SetIndex(r, e) ==
    IF e.ok THEN Done(SliceV(Append(r.val.f, e.val)), AccOf(e)) ELSE e

\* The loop of mapSlice from index j on; r is the outcome of the elements
\* before j, its val the target slice so far.
mapSliceFrom(sT, sV, dT, opts, j, r) ==
    IF ~r.ok \/ j > SliceLen(sT, sV) THEN r
    ELSE mapSliceFrom(sT, sV, dT, opts, j + 1,
            SetIndex(r, mapValues(IF sT.kind = "string" THEN Uint8T ELSE Elem(sT),
                                  IF sT.kind = "string" THEN IntV(sV.s[j]) ELSE sV.f[j],
                                  Elem(dT), Zero(Elem(dT)), opts, AccOf(r))))

\* destVal.Set(target) after verifyArrayTypesAreCompatible, p its outcome.
SetTarget(dV, r, p) ==
    IF p.ok THEN Done(r.val, AccOf(p)) ELSE Panic(dV, AccOf(p))

\* The end of mapSlice, r the outcome of its loop: the probe when the
\* source is empty, then destVal.Set(target).
mapSliceEnd(sT, sV, dT, dV, opts, r) ==
    IF ~r.ok THEN Panic(dV, AccOf(r))
    ELSE IF SliceLen(sT, sV) = 0
    THEN SetTarget(dV, r, verifyArrayTypesAreCompatible(sT, sV, dT, dV, opts, AccOf(r)))
    ELSE r

mapSlice(sT, sV, dT, dV, opts, acc) ==
    IF sT.kind \notin {"slice", "string"} THEN Panic(dV, acc)
    ELSE mapSliceEnd(sT, sV, dT, dV, opts,
                     mapSliceFrom(sT, sV, dT, opts, 1, Done(SliceV(<<>>), acc)))

\* (mutant) the probe is a slice of two elements.
verifyArrayTypesWithTwo(sT, sV, dT, dV, opts, acc) ==
    IF sT.kind # "slice" THEN Panic(dV, acc)
    ELSE mapValues(sT, SliceV(<<Zero(Elem(sT)), Zero(Elem(sT))>>), PtrTo(dT), NilV, opts, acc)

verifyArrayTypesAreCompatible(sT, sV, dT, dV, opts, acc) ==
    IF sT.kind # "slice" THEN Panic(dV, acc)
    ELSE mapValues(sT, SliceV(<<Zero(Elem(sT))>>), PtrTo(dT), NilV, opts, acc)

\* The loop of mapFields from field i on; r is the outcome of the fields
\* before i, its val the destination struct so far.
mapFieldsFrom(sT, sV, dT, i, opts, r) ==
    IF ~r.ok \/ i > (IF opts.useSourceMemberList THEN Len(sT.fields) ELSE Len(dT.fields))
    THEN r
    ELSE mapFieldsFrom(sT, sV, dT, i + 1, opts,
            IF opts.useSourceMemberList
            THEN mapSourceField(sT, sV, dT, r.val, i, opts, AccOf(r))
            ELSE mapDestField(sT, sV, dT, r.val, i, opts, AccOf(r)))

\* (mutant) a panic in the loop puts the destination struct back as it was
\* when mapFields began.
mapFieldsRollback(sT, sV, dT, dV, opts, acc) ==
    LET r == mapFieldsFrom(sT, sV, dT, 1, opts,
                 Done(dV, [acc EXCEPT !.trav = @ \cup {[s |-> sT, d |-> dT]}]))
    IN  IF r.ok THEN r ELSE [r EXCEPT !.val = dV]

mapFields(sT, sV, dT, dV, opts, acc) ==
    mapFieldsFrom(sT, sV, dT, 1, opts,
                  Done(dV, [acc EXCEPT !.trav = @ \cup {[s |-> sT, d |-> dT]}]))

\* mapValues(source, destField) for destField := destVal.Field(i): r, the
\* outcome of the mapValues call, written into field i of destVal.
SetField(dV, i, r) == [r EXCEPT !.val = [dV EXCEPT !.f[i] = r.val]]

\* mapValues(sourceField, destField) for destField := destVal.FieldByName:
\* r, the outcome of the mapValues call, written through destField.
SetFieldByName(dT, dV, destField, r) ==
    IF destField.st = "ok"
    THEN [r EXCEPT !.val = SetAt(dT, dV, destField.path, r.val)]
    ELSE [r EXCEPT !.val = dV]

\* (mutant) the "-" directive is not honoured: the field is mapped by name.
mapDestFieldNoSkip(sT, sV, dT, dV, i, opts, acc) ==
    IF dT.fields[i].anon
    THEN SetField(dV, i, mapValues(sT, sV, dT.fields[i].type, dV.f[i], opts, acc))
    ELSE mapByFieldName(sT, sV, dT, dV, opts, dT.fields[i].name, dT.fields[i].name, acc)

\* (mutant) the rename directive is not honoured: the source field is
\* looked up by the destination field's own name.
mapDestFieldNoRename(sT, sV, dT, dV, i, opts, acc) ==
    IF dT.fields[i].hasTag /\ dT.fields[i].tag = "-" THEN Done(dV, acc)
    ELSE IF dT.fields[i].anon
    THEN SetField(dV, i, mapValues(sT, sV, dT.fields[i].type, dV.f[i], opts, acc))
    ELSE mapByFieldName(sT, sV, dT, dV, opts, dT.fields[i].name, dT.fields[i].name, acc)

mapDestField(sT, sV, dT, dV, i, opts, acc) ==
    LET destTypeField == dT.fields[i]
        sourceFieldName == IF destTypeField.hasTag THEN destTypeField.tag
                           ELSE destTypeField.name
    IN  IF destTypeField.hasTag /\ destTypeField.tag = "-" THEN Done(dV, acc)
        ELSE IF destTypeField.anon
        THEN SetField(dV, i, mapValues(sT, sV, destTypeField.type, dV.f[i], opts, acc))
        ELSE mapByFieldName(sT, sV, dT, dV, opts, sourceFieldName, destTypeField.name, acc)

\* (mutant) a source field without a destination field is passed over.
mapSourceFieldLoose(sT, sV, dT, dV, i, opts, acc) ==
    LET sourceTypeField == sT.fields[i]
        destFieldName == IF sourceTypeField.hasTag THEN sourceTypeField.tag
                         ELSE sourceTypeField.name
    IN  IF sourceTypeField.hasTag /\ sourceTypeField.tag = "-" THEN Done(dV, acc)
        ELSE IF sourceTypeField.anon
        THEN mapValues(sourceTypeField.type, sV.f[i], dT, dV, opts, acc)
        ELSE IF ~TypeFieldByName(dT, destFieldName).ok THEN Done(dV, acc)
        ELSE mapByFieldName(sT, sV, dT, dV, opts, sourceTypeField.name, destFieldName, acc)

mapSourceField(sT, sV, dT, dV, i, opts, acc) ==
    LET sourceTypeField == sT.fields[i]
        destFieldName == IF sourceTypeField.hasTag THEN sourceTypeField.tag
                         ELSE sourceTypeField.name
    IN  IF sourceTypeField.hasTag /\ sourceTypeField.tag = "-" THEN Done(dV, acc)
        ELSE IF sourceTypeField.anon
        THEN mapValues(sourceTypeField.type, sV.f[i], dT, dV, opts, acc)
        ELSE mapByFieldName(sT, sV, dT, dV, opts, sourceTypeField.name, destFieldName, acc)

\* The source value mapByFieldName settles on, as [st, t, v, path]: st is
\* "nil" when the field sits in a nil embedded pointer, "panic" when a
\* lookup panics, "invalid" when nothing is found (sourceField stays the
\* zero Value).  destField is the destination field, sourceField the
\* source's field of the name, nested the outcome of the loop.
sourceFieldOf(sT, sV, destField, nilEmbedded, sourceField, nested) ==
    IF destField.st = "panic" \/ nilEmbedded.panic THEN PanicRef
    ELSE IF nilEmbedded.nil THEN [InvalidRef EXCEPT !.st = "nil"]
    ELSE IF sourceField.st # "invalid" THEN sourceField
    ELSE IF destField.t.kind = "struct" THEN Ref(sT, sV, <<>>)
    ELSE nested

\* The end of mapByFieldName: mapValues(sourceField, destField, opts).
mapFieldValues(dT, dV, opts, destField, sourceField, acc) ==
    IF sourceField.st = "panic" THEN Panic(dV, acc)
    ELSE IF sourceField.st = "nil" THEN Done(dV, acc)
    ELSE SetFieldByName(dT, dV, destField,
            mapValues(sourceField.t, sourceField.v, destField.t, destField.v, opts, acc))

\* (mutant) the loose mode of the earlier MapLoose: a destination field
\* that resolves to nothing on the source is left as it is.
mapFieldValuesLoose(dT, dV, opts, destField, sourceField, acc) ==
    IF sourceField.st = "panic" THEN Panic(dV, acc)
    ELSE IF sourceField.st \in {"nil", "invalid"} THEN Done(dV, acc)
    ELSE SetFieldByName(dT, dV, destField,
            mapValues(sourceField.t, sourceField.v, destField.t, destField.v, opts, acc))

\* (mutant) mapByFieldName in the loose mode.
mapByFieldNameLoose(sT, sV, dT, dV, opts, sourceFieldName, destFieldName, acc) ==
    mapFieldValuesLoose(dT, dV, opts, FieldByName(dT, dV, destFieldName),
        sourceFieldOf(sT, sV, FieldByName(dT, dV, destFieldName),
                      valueIsContainedInNilEmbeddedType(sT, sV, sourceFieldName),
                      FieldByName(sT, sV, sourceFieldName),
                      searchNested(sT, sV, sourceFieldName, 1)),
        acc)

mapByFieldName(sT, sV, dT, dV, opts, sourceFieldName, destFieldName, acc) ==
    mapFieldValues(dT, dV, opts, FieldByName(dT, dV, destFieldName),
        sourceFieldOf(sT, sV, FieldByName(dT, dV, destFieldName),
                      valueIsContainedInNilEmbeddedType(sT, sV, sourceFieldName),
                      FieldByName(sT, sV, sourceFieldName),
                      searchNested(sT, sV, sourceFieldName, 1)),
        acc)

----------------------------------------------------------------------------
(* The entry points.  source and dest are the interface{} arguments as     *)
(* typed values [t, v]; a nil interface has type InvalidT.  The result is  *)
(* [panicked, traversed, val, trav, n]: val the dest argument after the    *)
(* call, traversed whether mapValues was reached.                          *)

Arg(t, v) == [t |-> t, v |-> v]
NilInterface == Arg(InvalidT, NilV)

\* (mutant) the check of the dest argument's kind is missing.
DestIsNotPointerNever(dest) == FALSE

\* destType.Kind() != reflect.Ptr
DestIsNotPointer(dest) == dest.t.kind # "ptr"

\* reflect.ValueOf(dest).Elem(): the zero Value for a nil pointer.
DestElem(dest) ==
    IF IsNil(dest.v) THEN InvalidRef ELSE Ref(Elem(dest.t), dest.v.f[1], <<>>)

Outcome(dest, destVal, r) ==
    [panicked |-> ~r.ok, traversed |-> r.n > 0,
     val |-> IF destVal.st = "ok" THEN PtrV(r.val) ELSE dest.v,
     trav |-> r.trav, n |-> r.n]

Rejected(dest) ==
    [panicked |-> TRUE, traversed |-> FALSE, val |-> dest.v, trav |-> {}, n |-> 0]

MapToDestination(source, dest) ==
    IF DestIsNotPointer(dest) THEN Rejected(dest)
    ELSE Outcome(dest, DestElem(dest),
                 mapValues(source.t, source.v, DestElem(dest).t, DestElem(dest).v,
                           mapOptions(FALSE), NoAcc))

MapFromSource(source, dest) ==
    IF DestIsNotPointer(dest) THEN Rejected(dest)
    ELSE Outcome(dest, DestElem(dest),
                 mapValues(source.t, source.v, DestElem(dest).t, DestElem(dest).v,
                           mapOptions(TRUE), NoAcc))

\* (mutant) a key that names no destination field is ignored.
mapEntryLoose(entry, dT, dV, destFieldVal, acc) ==
    IF destFieldVal.st = "panic" THEN Panic(dV, acc)
    ELSE IF destFieldVal.st = "invalid" THEN Done(dV, acc)
    ELSE SetFieldByName(dT, dV, destFieldVal,
            mapValues(entry.t, entry.v, destFieldVal.t, destFieldVal.v,
                      mapOptions(TRUE), acc))

\* The body of the range loop of MapFromSourceMap for one entry
\* [key, t, v] of the map: destFieldVal is destVal.FieldByName(key), which
\* panics unless destVal (dT, dV) is a struct.
mapEntry(entry, dT, dV, destFieldVal, acc) ==
    IF destFieldVal.st = "panic" THEN Panic(dV, acc)
    ELSE SetFieldByName(dT, dV, destFieldVal,
            mapValues(entry.t, entry.v, destFieldVal.t, destFieldVal.v,
                      mapOptions(TRUE), acc))

\* The range loop of MapFromSourceMap over the entries of the map, in the
\* order the iteration visits them, from entry k on; r is the outcome of
\* the entries before k, its val the destination so far.
RECURSIVE mapEntriesFrom(_, _, _, _)
mapEntriesFrom(entries, dT, k, r) ==
    IF ~r.ok \/ k > Len(entries) THEN r
    ELSE mapEntriesFrom(entries, dT, k + 1,
            mapEntry(entries[k], dT, r.val,
                     FieldByName(dT, r.val, entries[k].key), AccOf(r)))

\* (mutant) the destination is reset to its zero value before the keys are
\* mapped: fields the map does not name do not keep what they held.
MapFromSourceMapReset(entries, dest) ==
    IF DestIsNotPointer(dest) THEN Rejected(dest)
    ELSE Outcome(dest, DestElem(dest),
                 mapEntriesFrom(entries, DestElem(dest).t, 1,
                                Done(Zero(DestElem(dest).t), NoAcc)))

MapFromSourceMap(entries, dest) ==
    IF DestIsNotPointer(dest) THEN Rejected(dest)
    ELSE Outcome(dest, DestElem(dest),
                 mapEntriesFrom(entries, DestElem(dest).t, 1,
                                Done(DestElem(dest).v, NoAcc)))

----------------------------------------------------------------------------
(* The types and values the calls are explored with: the types of          *)
(* automapper_test.go and variations of them.                              *)

SourceTypeA == StructOf("SourceTypeA", <<Fld("Foo", IntT), Fld("Bar", StringT)>>)
DestTypeA == StructOf("DestTypeA", <<Fld("Foo", IntT), Fld("Bar", StringT)>>)
SourceParent == StructOf("SourceParent", <<Fld("Children", SliceOf(SourceTypeA))>>)
DestParent == StructOf("DestParent", <<Fld("Children", SliceOf(DestTypeA))>>)
childSrc == StructOf("childSrc", <<Fld("Foo", StringT)>>)
childDest == StructOf("childDest", <<Fld("Foo", StringT), Fld("Bar", StringT)>>)
SourceType == [StringT EXCEPT !.name = "SourceType"]
DestType == [StringT EXCEPT !.name = "DestType"]
Inner == StructOf("Inner", <<Fld("Foo", IntT)>>)
Outer == StructOf("Outer", <<Embed(PtrTo(Inner))>>)

FooString == StructOf("", <<Fld("Foo", StringT)>>)
BarString == StructOf("", <<Fld("Bar", StringT)>>)
FooInt == StructOf("", <<Fld("Foo", IntT)>>)
BarInt == StructOf("", <<Fld("Bar", IntT)>>)

StructTypes ==
    { SourceTypeA, DestTypeA, SourceParent, DestParent, childSrc, childDest,
      FooString, BarString, FooInt,
      StructOf("", <<>>),
      StructOf("", <<Fld("A", StringT)>>),
      StructOf("", <<Fld("A", StringT), Fld("B", StringT)>>),
      StructOf("", <<Fld("Foo", StringT), Tagged("Bar", StringT, "-")>>),
      StructOf("", <<Tagged("Bar", StringT, "Foo")>>),
      StructOf("", <<Tagged("Foo", StringT, "Bar")>>),
      StructOf("", <<Tagged("Foo", StringT, "-")>>),
      StructOf("", <<Fld("Foo", SourceType)>>),
      StructOf("", <<Fld("Foo", DestType)>>),
      StructOf("", <<Fld("Foo", PtrTo(SourceTypeA))>>),
      StructOf("", <<Fld("Foo", PtrTo(DestTypeA))>>),
      StructOf("", <<Fld("Child", DestTypeA)>>),
      StructOf("", <<Embed(SourceTypeA)>>),
      StructOf("", <<Embed(DestTypeA)>>),
      StructOf("", <<Embed(PtrTo(SourceTypeA))>>),
      StructOf("SourceEmbedded", <<Embed(PtrTo(Inner)), Fld("Bar", StringT)>>),
      StructOf("DestEmbedded", <<Embed(PtrTo(Inner)), Fld("Bar", StringT)>>),
      StructOf("SourceShadow", <<Embed(Inner), Fld("Foo", IntT)>>),
      StructOf("DestShadow", <<Embed(Inner), Fld("Foo", IntT)>>),
      StructOf("", <<Embed(PtrTo(Outer))>>),
      StructOf("", <<Fld("A", FooString), Fld("B", FooString)>>),
      StructOf("", <<Fld("Parent", StructOf("", <<Fld("Child", FooString)>>))>>),
      StructOf("", <<Fld("Children", SliceOf(FooString))>>),
      StructOf("", <<Fld("Children", SliceOf(BarInt))>>),
      StructOf("", <<Fld("Foo", StringT), Fld("Bar", StringT), Fld("Child", childDest)>>),
      StructOf("", <<Fld("Foo", StringT), Fld("Child", PtrTo(childDest))>>) }

Types ==
    StructTypes \cup
    { IntT, StringT, PtrTo(SourceTypeA), PtrTo(DestTypeA),
      SliceOf(FooString), SliceOf(BarInt), SliceOf(PtrTo(FooString)), SliceOf(PtrTo(BarInt)) }

IntVals == {0, 42}
StrVals == {<<>>, <<97>>}

\* The sequences of length at most n over S.
RECURSIVE SeqsUpTo(_, _)
SeqsUpTo(S, n) ==
    IF n = 0 THEN {<<>>}
    ELSE LET shorter == SeqsUpTo(S, n - 1)
         IN  shorter \cup {Append(q, x) : q \in {p \in shorter : Len(p) = n - 1}, x \in S}

\* The value of type t none of whose parts is zero: 42 and "a" at the
\* leaves, pointers set, slices of one element.
RECURSIVE NonZero(_)
NonZero(t) ==
    IF t.kind \in {"int", "uint8"} THEN IntV(42)
    ELSE IF t.kind = "string" THEN StrV(<<97>>)
    ELSE IF t.kind = "struct" THEN StructV([k \in 1..Len(t.fields) |-> NonZero(t.fields[k].type)])
    ELSE IF t.kind = "ptr" THEN PtrV(NonZero(Elem(t)))
    ELSE SliceV(<<NonZero(Elem(t))>>)

\* The elements slices are filled with: the zero value of the element type
\* and the value with nothing zero.
ElemValues(t) == {Zero(t), NonZero(t)}

RECURSIVE ValuesOf(_)
RECURSIVE FieldValues(_, _)
\* The value sequences of the first k fields of struct type t.
FieldValues(t, k) ==
    IF k = 0 THEN {<<>>}
    ELSE {Append(q, x) : q \in FieldValues(t, k - 1), x \in ValuesOf(t.fields[k].type)}

ValuesOf(t) ==
    IF t.kind \in {"int", "uint8"} THEN {IntV(x) : x \in IntVals}
    ELSE IF t.kind = "string" THEN {StrV(b) : b \in StrVals}
    ELSE IF t.kind = "struct" THEN {StructV(fs) : fs \in FieldValues(t, Len(t.fields))}
    ELSE IF t.kind = "ptr" THEN {NilV} \cup {PtrV(x) : x \in ValuesOf(Elem(t))}
    ELSE IF t.kind = "slice"
    THEN {NilV} \cup {SliceV(es) : es \in SeqsUpTo(ElemValues(Elem(t)), MaxSliceLen)}
    ELSE {}

Args == UNION {{Arg(t, x) : x \in ValuesOf(t)} : t \in Types}

\* The source arguments: a value of a modelled type, or nil.
Sources == Args \cup {NilInterface}

\* The dest arguments: a pointer to a value of a modelled type (the way the
\* entry points are meant to be called), a nil pointer, or no pointer.
Dests ==
    {Arg(PtrTo(a.t), PtrV(a.v)) : a \in Args}
    \cup {a \in Args : a.t \in {DestTypeA, IntT, SliceOf(BarInt)}}
    \cup {Arg(PtrTo(DestTypeA), NilV)}

\* The source maps: at most MaxMapKeys entries with distinct keys, in the
\* order the range loop visits them.
MapEntries ==
    {[key |-> "Foo", t |-> StringT, v |-> StrV(<<97>>)],
     [key |-> "Foo", t |-> IntT, v |-> IntV(42)],
     [key |-> "Bar", t |-> StringT, v |-> StrV(<<>>)],
     [key |-> "Child", t |-> childSrc, v |-> StructV(<<StrV(<<97>>)>>)],
     [key |-> "Child", t |-> childDest, v |-> StructV(<<StrV(<<>>), StrV(<<97>>)>>)],
     [key |-> "Child", t |-> InvalidT, v |-> NilV],
     [key |-> "Baz", t |-> StringT, v |-> StrV(<<97>>)],
     [key |-> "Inner", t |-> Inner, v |-> StructV(<<IntV(0)>>)]}

SourceMaps ==
    {m \in SeqsUpTo(MapEntries, MaxMapKeys) :
        \A j, k \in 1..Len(m) : j # k => m[j].key # m[k].key}

----------------------------------------------------------------------------
(* The state: the caller's dest argument and the call made on it.  A call   *)
(* is one step (the package is synchronous and keeps no state of its own); *)
(* the caller then takes the outcome, recovering from a panic, and may     *)
(* call again with the dest argument as the call left it.                  *)

VARIABLES
    op,         \* the entry point called, "none" between calls
    source,     \* its source argument (NilInterface for MapFromSourceMap)
    sourceMap,  \* the entries of its source map (<<>> for the other two)
    dest,       \* the dest argument, as the last call left it
    pre,        \* the value of the dest argument when the last call began
    panicked,   \* whether the last call panicked
    traversed,  \* whether the last call reached mapValues
    trav,       \* the (source type, dest type) pairs it entered mapFields with
    n           \* the number of mapValues calls it made

vars == <<op, source, sourceMap, dest, pre, panicked, traversed, trav, n>>

Init ==
    /\ op = "none"
    /\ source = NilInterface
    /\ sourceMap = <<>>
    /\ dest \in Dests
    /\ pre = dest.v
    /\ panicked = FALSE
    /\ traversed = FALSE
    /\ trav = {}
    /\ n = 0

Finish(o) ==
    /\ dest' = [dest EXCEPT !.v = o.val]
    /\ pre' = dest.v
    /\ panicked' = o.panicked
    /\ traversed' = o.traversed
    /\ trav' = o.trav
    /\ n' = o.n

CallMapToDestination ==
    \E s \in Sources :
        /\ op = "none"
        /\ op' = "MapToDestination"
        /\ source' = s
        /\ sourceMap' = <<>>
        /\ Finish(MapToDestination(s, dest))

CallMapFromSource ==
    \E s \in Sources :
        /\ op = "none"
        /\ op' = "MapFromSource"
        /\ source' = s
        /\ sourceMap' = <<>>
        /\ Finish(MapFromSource(s, dest))

CallMapFromSourceMap ==
    \E m \in SourceMaps :
        /\ op = "none"
        /\ op' = "MapFromSourceMap"
        /\ source' = NilInterface
        /\ sourceMap' = m
        /\ Finish(MapFromSourceMap(m, dest))

Return ==
    /\ op # "none"
    /\ op' = "none"
    /\ source' = NilInterface
    /\ sourceMap' = <<>>
    /\ pre' = dest.v
    /\ panicked' = FALSE
    /\ traversed' = FALSE
    /\ trav' = {}
    /\ n' = 0
    /\ UNCHANGED dest

Next ==
    \/ Return
    \/ CallMapToDestination
    \/ CallMapFromSource
    \/ CallMapFromSourceMap

Spec == Init /\ [][Next]_vars

----------------------------------------------------------------------------
(* What the claims speak about.                                            *)

\* The last step was a call of entry point o with a pointer to a value.
Called(o) == op = o /\ dest.t.kind = "ptr" /\ ~IsNil(pre)

\* The value dest points to: its type, and its value before and after.
DestT == Elem(dest.t)
Before == pre.f[1]
After == dest.v.f[1]

\* The source as mapValues sees it against a struct destination: a pointer
\* is dereferenced, a nil one to the zero value.
SrcT == IF source.t.kind = "ptr" THEN Elem(source.t) ELSE source.t
SrcV ==
    IF source.t.kind # "ptr" THEN source.v
    ELSE IF IsNil(source.v) THEN Zero(Elem(source.t)) ELSE source.v.f[1]

BothStructs == SrcT.kind = "struct" /\ DestT.kind = "struct"

FieldsOf(t) == 1..Len(t.fields)
DirectIndex(t, name) == {k \in FieldsOf(t) : t.fields[k].name = name}
IsSkipped(fld) == fld.hasTag /\ fld.tag = "-"
IsRenamed(fld) == fld.hasTag /\ fld.tag # "-" /\ ~fld.anon
\* The name a field is looked up by on the other side.
LookupName(fld) == IF fld.hasTag THEN fld.tag ELSE fld.name

----------------------------------------------------------------------------
\* C1: a call of MapToDestination, MapFromSource or MapFromSourceMap whose
\* dest argument is not a pointer panics before any traversal (no mapValues
\* call is made), whatever the source is, and leaves the dest value as it
\* was.
C1_NonPointerDestRejected ==
    (op # "none" /\ dest.t.kind # "ptr")
        => (panicked /\ ~traversed /\ n = 0 /\ dest.v = pre)

\* TestPanicWhenDestIsNotPointer: SourceTypeA{} into a DestTypeA passed by
\* value.
C1_Witness ==
    /\ op = "MapToDestination"
    /\ source.t = SourceTypeA
    /\ dest.t = DestTypeA
    /\ panicked

\* Two struct types with the same field names, field types and
\* embeddedness, no field carrying a directive.
SameFields(sT, dT) ==
    /\ sT.kind = "struct" /\ dT.kind = "struct"
    /\ Len(sT.fields) = Len(dT.fields)
    /\ \A k \in FieldsOf(sT) :
        /\ sT.fields[k].name = dT.fields[k].name
        /\ sT.fields[k].type = dT.fields[k].type
        /\ sT.fields[k].anon = dT.fields[k].anon
        /\ ~sT.fields[k].hasTag /\ ~dT.fields[k].hasTag

\* C2: MapToDestination between two struct types with the same field
\* names and field types (none carrying a directive) completes and leaves
\* every destination field equal to the source field of the same name.
C2_IdenticalFieldsCopied ==
    (Called("MapToDestination") /\ SameFields(SrcT, DestT))
        => (~panicked /\ \A k \in FieldsOf(DestT) : After.f[k] = SrcV.f[k])

\* Every field of the destination struct tagged "-" holds its pre-call
\* value.
SkipKept ==
    \A k \in FieldsOf(DestT) : IsSkipped(DestT.fields[k]) => After.f[k] = Before.f[k]

\* C3, as stated: after a MapToDestination call that completes, for every
\* pair of source and destination types, every destination field tagged
\* "-" holds its pre-call value.
C3_SkipAlwaysKept ==
    (Called("MapToDestination") /\ ~panicked /\ DestT.kind = "struct") => SkipKept

\* C3, amended: after a MapToDestination call that completes on a
\* destination struct whose type is not identical to the (dereferenced)
\* source's type, every field of that struct tagged "-" holds its pre-call
\* value.  (Identical types are copied whole, skip fields included.)
C3_SkipKeptWhenTraversed ==
    (Called("MapToDestination") /\ ~panicked /\ DestT.kind = "struct" /\ SrcT # DestT)
        => SkipKept

\* A skip field keeps a non-zero pre-call value although the source has a
\* field of its name with another value.
C3_Witness ==
    /\ Called("MapToDestination") /\ ~panicked /\ BothStructs /\ SrcT # DestT
    /\ \E k \in FieldsOf(DestT) :
        /\ IsSkipped(DestT.fields[k])
        /\ After.f[k] = Before.f[k]
        /\ \E j \in DirectIndex(SrcT, DestT.fields[k].name) :
            /\ SrcT.fields[j].type = DestT.fields[k].type
            /\ SrcV.f[j] # Before.f[k]

DestUnresolvable(sT, dT) ==
    \E k \in FieldsOf(dT) :
        /\ ~IsSkipped(dT.fields[k]) /\ ~dT.fields[k].anon
        /\ dT.fields[k].type.kind # "struct"
        /\ ~TypeFieldByName(sT, LookupName(dT.fields[k])).ok
        /\ \A j \in FieldsOf(sT) :
            sT.fields[j].type.kind = "struct"
                => ~TypeFieldByName(sT.fields[j].type, LookupName(dT.fields[k])).ok

\* C5: under MapToDestination, when mapFields is entered with a destination
\* struct one of whose fields (not skipped, not embedded, not a struct)
\* resolves to nothing on the source struct - FieldByName finds its lookup
\* name neither on the source nor on any struct-kinded field of the source -
\* the call panics.
C5_UnresolvedDestFieldPanics ==
    op = "MapToDestination"
        => \A p \in trav : DestUnresolvable(p.s, p.d) => panicked

\* The unresolved field is met below the root, in mapping a nested value.
C5_Witness ==
    /\ Called("MapToDestination") /\ panicked /\ BothStructs
    /\ ~DestUnresolvable(SrcT, DestT)
    /\ \E p \in trav : DestUnresolvable(p.s, p.d)

\* Some field of source struct sT that is not skipped and not embedded has
\* a lookup name that FieldByName does not find on destination struct dT.
SourceUnresolvable(sT, dT) ==
    \E j \in FieldsOf(sT) :
        /\ ~IsSkipped(sT.fields[j]) /\ ~sT.fields[j].anon
        /\ ~TypeFieldByName(dT, LookupName(sT.fields[j])).ok

\* C6: under MapFromSource, when mapFields is entered - at any nesting
\* level - with a source struct one of whose fields (not skipped, not
\* embedded) has no destination field of its name, or of the name its
\* rename directive gives, the call panics.
C6_UnresolvedSourceFieldPanics ==
    op = "MapFromSource"
        => \A p \in trav : SourceUnresolvable(p.s, p.d) => panicked

\* The root structs resolve; the field without a destination is met one
\* level down.
C6_Witness ==
    /\ Called("MapFromSource") /\ panicked /\ BothStructs
    /\ ~SourceUnresolvable(SrcT, DestT)
    /\ \E p \in trav : SourceUnresolvable(p.s, p.d)

\* C7: under MapToDestination, for a source field and the destination
\* field of its name that are both pointers, and for every pre-call value
\* of the destination field: a nil source pointer leaves the destination
\* pointer nil, a non-nil one leaves it pointing to the mapping of the
\* source's pointee onto a zero value.
C7_PointerFieldFollowsSource ==
    (Called("MapToDestination") /\ ~panicked /\ BothStructs)
        => \A k \in FieldsOf(DestT) :
            (DestT.fields[k].type.kind = "ptr" /\ ~DestT.fields[k].anon
                    /\ ~DestT.fields[k].hasTag)
            => \A j \in DirectIndex(SrcT, DestT.fields[k].name) :
                SrcT.fields[j].type.kind = "ptr"
                => IF IsNil(SrcV.f[j]) THEN IsNil(After.f[k])
                   ELSE /\ ~IsNil(After.f[k])
                        /\ After.f[k].f[1] =
                             mapValues(SrcT.fields[j].type, SrcV.f[j],
                                       Elem(DestT.fields[k].type),
                                       Zero(Elem(DestT.fields[k].type)),
                                       mapOptions(FALSE), NoAcc).val

\* The values of type t that are present: all but the nil pointer.
Present(t) == {x \in ValuesOf(t) : t.kind = "ptr" => ~IsNil(x)}

\* C8: for distinct source and destination slice types, if mapping a
\* one-element source slice (the element present: not a nil pointer) panics,
\* then mapping an empty source slice of that type panics too.
C8_EmptySliceProbed ==
    (/\ Called("MapToDestination")
     /\ source.t.kind = "slice" /\ DestT.kind = "slice" /\ source.t # DestT
     /\ ~IsNil(source.v) /\ Len(source.v.f) = 0
     /\ \E e \in Present(Elem(source.t)) :
            MapToDestination(Arg(source.t, SliceV(<<e>>)), Arg(dest.t, pre)).panicked)
        => panicked

\* The keys of the source map, the entry of a key, and what a struct
\* mapped source-driven names on the other side.
MapKeys == {sourceMap[k].key : k \in 1..Len(sourceMap)}
EntryFor(name) == sourceMap[CHOOSE k \in 1..Len(sourceMap) : sourceMap[k].key = name]
NoEmbedded(t) == \A k \in FieldsOf(t) : ~t.fields[k].anon
Targets(t) == {LookupName(t.fields[k]) : k \in {j \in FieldsOf(t) : ~IsSkipped(t.fields[j])}}

NestedMerged(sT, sV, dT, before, after) ==
    \A m \in FieldsOf(dT) :
        /\ (~dT.fields[m].anon /\ dT.fields[m].name \notin Targets(sT))
            => after.f[m] = before.f[m]
        /\ \A j \in DirectIndex(sT, dT.fields[m].name) :
            (~sT.fields[j].hasTag /\ sT.fields[j].type = dT.fields[m].type)
                => after.f[m] = sV.f[j]

KeyNamesField(key) ==
    /\ ~IsNil(pre)
    /\ DestT.kind = "struct"
    /\ TypeFieldByName(DestT, key).ok

\* C10: a MapFromSourceMap call whose map has a key that names no field of
\* the destination struct panics.
C10_UnknownKeyPanics ==
    (op = "MapFromSourceMap" /\ dest.t.kind = "ptr"
         /\ \E k \in 1..Len(sourceMap) : ~KeyNamesField(sourceMap[k].key))
        => panicked

\* The key Baz names no field; the key Foo, visited before it, has been
\* mapped when the call panics.
C10_Witness ==
    /\ Called("MapFromSourceMap") /\ panicked
    /\ DestT.kind = "struct"
    /\ Len(sourceMap) = 2
    /\ sourceMap[1].key = "Foo" /\ KeyNamesField("Foo")
    /\ sourceMap[2].key = "Baz" /\ ~KeyNamesField("Baz")
    /\ After # Before

----------------------------------------------------------------------------
\* A call of MapToDestination or MapFromSource with a slice as source and a
\* pointer to a slice of another slice type as dest.
SliceToSlice ==
    /\ (Called("MapToDestination") \/ Called("MapFromSource"))
    /\ source.t.kind = "slice" /\ DestT.kind = "slice" /\ source.t # DestT

\* Element i of the source slice mapped onto a zero value of the
\* destination's element type, in the mode of the call.
ElementMapped(i) ==
    mapValues(Elem(source.t), source.v.f[i], Elem(DestT), Zero(Elem(DestT)),
              mapOptions(op = "MapFromSource"), NoAcc)

\* C11: when a slice is mapped to a slice of another slice type and the
\* call completes, the destination has the source's length and its
\* element i is the mapping of source element i onto a zero value of the
\* destination element type, whatever the destination held before.
C11_SliceMappedInOrder ==
    (SliceToSlice /\ ~panicked)
        => /\ Len(After.f) = Len(source.v.f)
           /\ \A i \in 1..Len(source.v.f) :
                ElementMapped(i).ok /\ After.f[i] = ElementMapped(i).val

\* Two different elements mapped into a destination slice that held one
\* element of another content.
C11_Witness ==
    /\ SliceToSlice /\ ~panicked
    /\ Len(source.v.f) = 2 /\ source.v.f[1] # source.v.f[2]
    /\ After.f[1] # After.f[2]
    /\ Len(Before.f) = 1 /\ Before.f[1] # After.f[1]

----------------------------------------------------------------------------
\* Whether the field at index path index of struct value v (of type t)
\* lies behind an embedded pointer that is nil.
RECURSIVE BehindNilEmbedded(_, _, _)
BehindNilEmbedded(t, v, index) ==
    IF Len(index) <= 1 THEN FALSE
    ELSE LET fld == t.fields[Head(index)]
             fv == v.f[Head(index)]
         IN  IF fld.type.kind = "ptr"
             THEN IsNil(fv) \/ BehindNilEmbedded(Elem(fld.type), fv.f[1], Tail(index))
             ELSE BehindNilEmbedded(fld.type, fv, Tail(index))

\* The fields of the destination struct that are mapped by name and whose
\* name the source has only as a field promoted through an embedded
\* pointer that is nil.
PromotedThroughNil ==
    {k \in FieldsOf(DestT) :
        /\ ~DestT.fields[k].anon /\ ~IsSkipped(DestT.fields[k])
        /\ TypeFieldByName(SrcT, LookupName(DestT.fields[k])).ok
        /\ BehindNilEmbedded(SrcT, SrcV,
                             TypeFieldByName(SrcT, LookupName(DestT.fields[k])).index)}

\* C12: under MapToDestination, a destination field whose name the source
\* has only as a field promoted through an embedded pointer that is nil
\* is mapped without a panic and holds its pre-call value afterwards.
C12_NilEmbeddedLeftUntouched ==
    (Called("MapToDestination") /\ BothStructs /\ SrcT # DestT)
        => \A k \in PromotedThroughNil :
              /\ mapDestField(SrcT, SrcV, DestT, Before, k, mapOptions(FALSE), NoAcc).ok
              /\ ~panicked => After.f[k] = Before.f[k]

----------------------------------------------------------------------------
\* The fields of the destination struct that are mapped by name, are not
\* structs, and whose name is not a field of the source.
FallbackFields ==
    {k \in FieldsOf(DestT) :
        /\ ~DestT.fields[k].anon /\ ~IsSkipped(DestT.fields[k])
        /\ DestT.fields[k].type.kind # "struct"
        /\ ~TypeFieldByName(SrcT, LookupName(DestT.fields[k])).ok}

\* The struct-kinded fields of the source whose type has a field called
\* name.
NestedCandidates(name) ==
    {i \in FieldsOf(SrcT) :
        /\ SrcT.fields[i].type.kind = "struct"
        /\ TypeFieldByName(SrcT.fields[i].type, name).ok}

\* The field called name of the first of them in declaration order.
FirstNested(name) ==
    LET i == CHOOSE c \in NestedCandidates(name) : \A d \in NestedCandidates(name) : c <= d
    IN  FieldByName(SrcT.fields[i].type, SrcV.f[i], name)

\* C13: when the name of a non-struct destination field is not a field of
\* the source, the field is mapped from the field of that name of the
\* first struct-kinded source field, in declaration order, that has one;
\* when no struct-kinded source field has one (it exists two levels down
\* at best), the call panics.
C13_OneLevelFallback ==
    (Called("MapToDestination") /\ BothStructs /\ SrcT # DestT)
        => \A k \in FallbackFields :
              IF NestedCandidates(LookupName(DestT.fields[k])) = {} THEN panicked
              ELSE ~panicked =>
                     /\ FirstNested(LookupName(DestT.fields[k])).st = "ok"
                     /\ After.f[k] =
                            mapValues(FirstNested(LookupName(DestT.fields[k])).t,
                                      FirstNested(LookupName(DestT.fields[k])).v,
                                      DestT.fields[k].type, Before.f[k],
                                      mapOptions(FALSE), NoAcc).val

\* Two struct-kinded source fields both have the name, with different
\* values: the destination field holds the first one's.
C13_Witness ==
    /\ Called("MapToDestination") /\ BothStructs /\ SrcT # DestT /\ ~panicked
    /\ \E k \in FallbackFields :
          /\ Cardinality(NestedCandidates(LookupName(DestT.fields[k]))) = 2
          /\ SrcV.f[1].f[1] # SrcV.f[2].f[1]
          /\ After.f[k] = SrcV.f[1].f[1]
          /\ After.f[k] # Before.f[k]

----------------------------------------------------------------------------
\* Field k of the root destination struct mapped on its own, from the
\* destination as it was before the call.
DestFieldAlone(k) ==
    mapDestField(SrcT, SrcV, DestT, Before, k, mapOptions(FALSE), NoAcc)

\* Field i of the root source struct mapped on its own, into the
\* destination as it was before the call.
SourceFieldAlone(i) ==
    mapSourceField(SrcT, SrcV, DestT, Before, i, mapOptions(TRUE), NoAcc)

\* The first field of the traversal whose mapping panics (0: none).
FirstFailing(failing) ==
    IF failing = {} THEN 0 ELSE CHOOSE j \in failing : \A k \in failing : j <= k

FailingDestField == FirstFailing({k \in FieldsOf(DestT) : ~DestFieldAlone(k).ok})
FailingSourceField == FirstFailing({i \in FieldsOf(SrcT) : ~SourceFieldAlone(i).ok})

\* The source fields MapFromSource writes destination field k from.
Writers(k) ==
    {i \in FieldsOf(SrcT) :
        ~IsSkipped(SrcT.fields[i]) /\ DestT.fields[k].name = LookupName(SrcT.fields[i])}

\* MapToDestination visits the destination fields in declaration order:
\* those before the failing one hold their mapped value, those after it
\* their pre-call value.
NoRollbackDestDriven ==
    (Called("MapToDestination") /\ BothStructs /\ SrcT # DestT /\ panicked)
        => /\ FailingDestField # 0
           /\ \A k \in FieldsOf(DestT) :
                /\ k < FailingDestField => After.f[k] = DestFieldAlone(k).val.f[k]
                /\ k > FailingDestField => After.f[k] = Before.f[k]

\* MapFromSource visits the source fields in declaration order (structs
\* without embedded fields): a destination field written from one source
\* field before the failing one holds its mapped value, one written from
\* later source fields only holds its pre-call value.
NoRollbackSourceDriven ==
    (/\ Called("MapFromSource") /\ BothStructs /\ SrcT # DestT /\ panicked
     /\ NoEmbedded(SrcT) /\ NoEmbedded(DestT))
        => /\ FailingSourceField # 0
           /\ \A k \in FieldsOf(DestT) :
                /\ (\A i \in Writers(k) : i > FailingSourceField)
                      => After.f[k] = Before.f[k]
                /\ \A i \in Writers(k) :
                      (Writers(k) = {i} /\ i < FailingSourceField)
                          => After.f[k] = SourceFieldAlone(i).val.f[k]

\* C14: there is no rollback.  When a call panics at some field of the
\* traversal of the root struct, every destination field assigned before
\* the failing field keeps its newly mapped value and every field that
\* comes after it in traversal order keeps its pre-call value.
C14_NoRollback == NoRollbackDestDriven /\ NoRollbackSourceDriven

\* The second of three destination fields fails after the first was given
\* a new value.
C14_Witness ==
    /\ Called("MapToDestination") /\ BothStructs /\ SrcT # DestT /\ panicked
    /\ Len(DestT.fields) = 3
    /\ FailingDestField = 2
    /\ After.f[1] # Before.f[1]
    /\ After.f[3] = Before.f[3]
    /\ After.f[3] # Zero(DestT.fields[3].type)

----------------------------------------------------------------------------
(* Termination.  MaxSteps(sT, dT, opts) is the largest number of mapValues *)
(* calls a mapValues call with a source of type sT and a destination of    *)
(* type dT can make, itself included.  It follows the recursion of the     *)
(* mapper on the types alone: which fields are paired is settled by the    *)
(* types, a slice has at most MaxSliceLen elements, and a nil pointer or a *)
(* panic only ends the recursion earlier.  It is defined by recursion on   *)
(* the two type graphs, so it exists because they are finite and acyclic.  *)

\* The type of the field at index path index of struct type t.
RECURSIVE TypeAt(_, _)
TypeAt(t, index) ==
    IF index = <<>> THEN t
    ELSE IF t.kind = "ptr" THEN TypeAt(Elem(t), index)
    ELSE TypeAt(t.fields[Head(index)].type, Tail(index))

\* The type of the field called name of t: InvalidT when there is none.
FieldType(t, name) ==
    IF t.kind = "struct" /\ TypeFieldByName(t, name).ok
    THEN TypeAt(t, TypeFieldByName(t, name).index)
    ELSE InvalidT

\* The type of the source value mapByFieldName maps into a destination
\* field of type dfT from.
SourceTypeFor(sT, dfT, sourceFieldName) ==
    IF TypeFieldByName(sT, sourceFieldName).ok THEN FieldType(sT, sourceFieldName)
    ELSE IF dfT.kind = "struct" THEN sT
    ELSE LET nested == {i \in FieldsOf(sT) :
                           /\ sT.fields[i].type.kind = "struct"
                           /\ TypeFieldByName(sT.fields[i].type, sourceFieldName).ok}
         IN  IF nested = {} THEN InvalidT
             ELSE FieldType(sT.fields[CHOOSE i \in nested : \A j \in nested : i <= j].type,
                            sourceFieldName)

Larger(a, b) == IF a >= b THEN a ELSE b

RECURSIVE MaxSteps(_, _, _)
RECURSIVE MaxFieldSteps(_, _, _, _)

\* The calls of the loop of mapFields from field i on.
MaxFieldSteps(sT, dT, opts, i) ==
    IF i > (IF opts.useSourceMemberList THEN Len(sT.fields) ELSE Len(dT.fields)) THEN 0
    ELSE MaxFieldSteps(sT, dT, opts, i + 1) +
         (IF opts.useSourceMemberList
          THEN IF IsSkipped(sT.fields[i]) THEN 0
               ELSE IF sT.fields[i].anon THEN MaxSteps(sT.fields[i].type, dT, opts)
               ELSE MaxSteps(SourceTypeFor(sT, FieldType(dT, LookupName(sT.fields[i])),
                                           sT.fields[i].name),
                             FieldType(dT, LookupName(sT.fields[i])), opts)
          ELSE IF IsSkipped(dT.fields[i]) THEN 0
               ELSE IF dT.fields[i].anon THEN MaxSteps(sT, dT.fields[i].type, opts)
               ELSE MaxSteps(SourceTypeFor(sT, dT.fields[i].type, LookupName(dT.fields[i])),
                             dT.fields[i].type, opts))

\* The calls for one element of a slice or string of type sT.
MaxElemSteps(sT, dT, opts) ==
    MaxSteps(IF sT.kind = "string" THEN Uint8T ELSE Elem(sT), Elem(dT), opts)

MaxSteps(sT, dT, opts) ==
    IF sT.kind = "invalid" \/ dT.kind = "invalid" THEN 1
    ELSE IF dT.kind = "struct" /\ sT.kind = "ptr" THEN 1 + MaxSteps(Elem(sT), dT, opts)
    ELSE IF dT = sT THEN 1
    ELSE IF dT.kind = "struct" /\ sT.kind = "struct" THEN 1 + MaxFieldSteps(sT, dT, opts, 1)
    ELSE IF dT.kind = "ptr" THEN 1 + MaxSteps(sT, Elem(dT), opts)
    ELSE IF dT.kind = "slice"
    THEN IF sT.kind = "string" THEN 1 + MaxSliceLen * MaxElemSteps(sT, dT, opts)
         ELSE IF sT.kind # "slice" THEN 1
         \* MaxSliceLen elements, or none and the probe: a pointer to the
         \* destination slice, a slice of one element, the element
         ELSE 1 + Larger(MaxSliceLen * MaxElemSteps(sT, dT, opts),
                         2 + MaxElemSteps(sT, dT, opts))
    ELSE 1

\* The calls MapFromSourceMap can make for the entries from entry k on.
RECURSIVE MaxEntrySteps(_, _)
MaxEntrySteps(dT, k) ==
    IF k > Len(sourceMap) THEN 0
    ELSE MaxEntrySteps(dT, k + 1) +
         MaxSteps(sourceMap[k].t, FieldType(dT, sourceMap[k].key), mapOptions(TRUE))

\* The type of reflect.ValueOf(dest).Elem() of the call.
DestElemT == IF dest.t.kind = "ptr" /\ ~IsNil(pre) THEN DestT ELSE InvalidT

\* C15: every call of MapToDestination, MapFromSource and MapFromSourceMap
\* ends, completing or panicking, after a number of mapValues calls that
\* is bounded by the declared types (finite, acyclic) of its arguments,
\* the whole-source fallback and the probe of an empty slice included.
C15_StepsBounded ==
    /\ op = "MapToDestination" => n <= MaxSteps(source.t, DestElemT, mapOptions(FALSE))
    /\ op = "MapFromSource" => n <= MaxSteps(source.t, DestElemT, mapOptions(TRUE))
    /\ op = "MapFromSourceMap" => n <= MaxEntrySteps(DestElemT, 1)

\* An empty slice inside a struct is probed: the calls for the struct,
\* the slice, the two of the probe and those of its one element.
C15_Witness ==
    /\ Called("MapToDestination") /\ ~panicked
    /\ SrcT = SourceParent /\ DestT = DestParent
    /\ Len(SrcV.f[1].f) = 0
    /\ n = 4 + MaxSteps(SourceTypeA, DestTypeA, mapOptions(FALSE))

----------------------------------------------------------------------------
\* The source maps that hold the entries of the call's map, in any order of
\* iteration.
VisitingOrders ==
    {m \in SourceMaps :
        {m[k] : k \in 1..Len(m)} = {sourceMap[k] : k \in 1..Len(sourceMap)}}

\* The outcome of the call had the range loop visited the map as m.
VisitedAs(m) == MapFromSourceMap(m, Arg(dest.t, pre))

\* C16: the outcome of MapFromSourceMap does not depend on the order in
\* which the keys of the map are visited: all orders agree on whether the
\* call completes, and when it does on the final destination value.
C16_OrderIrrelevant ==
    Called("MapFromSourceMap")
        => \A m \in VisitingOrders :
              /\ VisitedAs(m).panicked = panicked
              /\ ~panicked => VisitedAs(m).val = dest.v

====
